---- MODULE Spec2Model ----
(***************************************************************************)
(* Model of openid/association.py: the Association entity, its KV-form     *)
(* serialization and its signing operations.                               *)
(*                                                                         *)
(* Text is a sequence of one-character strings, binary data a sequence of  *)
(* bytes (0..255).  The collaborators of the module that live in           *)
(* openid.oidutil and openid.cryptutil (seqToKV, kvToSeq, toBase64,        *)
(* fromBase64, hmacSha1) are modelled from their documented contract.      *)
(***************************************************************************)
EXTENDS Integers, Sequences, FiniteSets, TLC

VARIABLES
    clock,   \* time.time(), counted in ticks of 1/TicksPerSecond second
    assoc,   \* <<a>>: the instance yielded by the latest creation call; <<>>: none
    made,    \* how and when that instance was created
    last     \* the latest call: operation, receiver, arguments, outcome

vars == <<clock, assoc, made, last>>

(***************************************************************************)
(* Bounds                                                                  *)
(***************************************************************************)
MaxTime == 3          \* the clock runs from second 0 to second MaxTime
TicksPerSecond == 2   \* resolution of time.time() below one second

(***************************************************************************)
(* Text helpers                                                            *)
(***************************************************************************)
NL == "\n"
COLON == ":"

Max(a, b) == IF a >= b THEN a ELSE b

Contains(s, c) == \E i \in 1..Len(s) : s[i] = c

Count(s, c) == Cardinality({i \in 1..Len(s) : s[i] = c})

\* position of the first occurrence of c in s (0 when absent)
Find(s, c) == IF Contains(s, c) THEN CHOOSE i \in 1..Len(s) : s[i] = c /\ \A j \in 1..(i-1) : s[j] # c
              ELSE 0

\* Python's s.split(c)
RECURSIVE Split(_, _)
Split(s, c) ==
    IF ~Contains(s, c) THEN <<s>>
    ELSE <<SubSeq(s, 1, Find(s, c) - 1)>> \o Split(SubSeq(s, Find(s, c) + 1, Len(s)), c)

Digits == <<"0", "1", "2", "3", "4", "5", "6", "7", "8", "9">>

IsDigit(c) == \E i \in 1..10 : Digits[i] = c

DigitVal(c) == (CHOOSE i \in 1..10 : Digits[i] = c) - 1

\* str(n) for a non-negative integer n
RECURSIVE NatToStr(_)
NatToStr(n) == IF n < 10 THEN <<Digits[n + 1]>> ELSE NatToStr(n \div 10) \o <<Digits[(n % 10) + 1]>>

\* str(int(n))
IntToStr(n) == IF n < 0 THEN <<"-">> \o NatToStr(0 - n) ELSE NatToStr(n)

RECURSIVE DigitsToNat(_)
DigitsToNat(s) == IF Len(s) = 0 THEN 0 ELSE 10 * DigitsToNat(SubSeq(s, 1, Len(s) - 1)) + DigitVal(s[Len(s)])

\* the outcome of a call: a returned value or a raised exception; hmac records
\* whether the keyed-hash primitive was invoked during the call
Ok(v) == [ok |-> TRUE, err |-> "", val |-> v, hmac |-> FALSE]
Raise(e) == [ok |-> FALSE, err |-> e, val |-> <<>>, hmac |-> FALSE]

\* int(s) on a decimal literal with an optional sign
StrToInt(s) ==
    LET body == IF Len(s) > 0 /\ s[1] \in {"-", "+"} THEN SubSeq(s, 2, Len(s)) ELSE s
    IN IF Len(body) = 0 \/ \E i \in 1..Len(body) : ~IsDigit(body[i])
       THEN Raise("ValueError: invalid literal for int()")
       ELSE Ok(IF Len(s) > 0 /\ s[1] = "-" THEN 0 - DigitsToNat(body) ELSE DigitsToNat(body))

(***************************************************************************)
(* Binary-to-text encoding (oidutil.toBase64 / oidutil.fromBase64)         *)
(***************************************************************************)
B64Chars ==
    << "A", "B", "C", "D", "E", "F", "G", "H", "I", "J", "K", "L", "M",
       "N", "O", "P", "Q", "R", "S", "T", "U", "V", "W", "X", "Y", "Z",
       "a", "b", "c", "d", "e", "f", "g", "h", "i", "j", "k", "l", "m",
       "n", "o", "p", "q", "r", "s", "t", "u", "v", "w", "x", "y", "z",
       "0", "1", "2", "3", "4", "5", "6", "7", "8", "9", "+", "/" >>

PAD == "="

IsB64(c) == \E i \in 1..64 : B64Chars[i] = c

B64Val(c) == (CHOOSE i \in 1..64 : B64Chars[i] = c) - 1

RECURSIVE toBase64(_)
toBase64(s) ==
    IF Len(s) = 0 THEN <<>>
    ELSE IF Len(s) = 1 THEN
        << B64Chars[(s[1] \div 4) + 1], B64Chars[((s[1] % 4) * 16) + 1], PAD, PAD >>
    ELSE IF Len(s) = 2 THEN
        << B64Chars[(s[1] \div 4) + 1],
           B64Chars[((s[1] % 4) * 16 + (s[2] \div 16)) + 1],
           B64Chars[((s[2] % 16) * 4) + 1], PAD >>
    ELSE
        << B64Chars[(s[1] \div 4) + 1],
           B64Chars[((s[1] % 4) * 16 + (s[2] \div 16)) + 1],
           B64Chars[((s[2] % 16) * 4 + (s[3] \div 64)) + 1],
           B64Chars[(s[3] % 64) + 1] >> \o toBase64(SubSeq(s, 4, Len(s)))

\* a group of four characters is decodable when it is four alphabet
\* characters, or (as the last group only) ends in one or two pad characters
B64GroupOk(g, isLast) ==
    /\ IsB64(g[1]) /\ IsB64(g[2])
    /\ \/ IsB64(g[3]) /\ IsB64(g[4])
       \/ isLast /\ IsB64(g[3]) /\ g[4] = PAD
       \/ isLast /\ g[3] = PAD /\ g[4] = PAD

B64GroupBytes(g) ==
    LET b1 == B64Val(g[1]) * 4 + (B64Val(g[2]) \div 16)
    IN IF g[3] = PAD THEN <<b1>>
       ELSE LET b2 == (B64Val(g[2]) % 16) * 16 + (B64Val(g[3]) \div 4)
            IN IF g[4] = PAD THEN <<b1, b2>>
               ELSE <<b1, b2, (B64Val(g[3]) % 4) * 64 + B64Val(g[4])>>

RECURSIVE B64Bytes(_)
B64Bytes(t) == IF Len(t) = 0 THEN <<>>
               ELSE B64GroupBytes(SubSeq(t, 1, 4)) \o B64Bytes(SubSeq(t, 5, Len(t)))

fromBase64(t) ==
    IF Len(t) % 4 # 0
       \/ \E k \in 0..((Len(t) \div 4) - 1) :
             ~B64GroupOk(SubSeq(t, 4 * k + 1, 4 * k + 4), k = (Len(t) \div 4) - 1)
    THEN Raise("binascii.Error")
    ELSE Ok(B64Bytes(t))

(***************************************************************************)
(* Ordered key-value codec (oidutil.seqToKV / oidutil.kvToSeq)             *)
(***************************************************************************)
\* encode: every pair becomes key:value\n, in input order; a newline in a
\* key or a value, or a colon in a key, is rejected
RECURSIVE seqToKV(_, _)
seqToKV(seq, strict) ==
    IF Len(seq) = 0 THEN Ok(<<>>)
    ELSE LET k == seq[1][1]
             v == seq[1][2]
             rest == seqToKV(Tail(seq), strict)
         IN IF Contains(k, NL) \/ Contains(k, COLON) \/ Contains(v, NL)
            THEN Raise("InvalidCharacterError")
            ELSE IF ~rest.ok THEN rest
            ELSE Ok(k \o <<COLON>> \o v \o <<NL>> \o rest.val)

\* the lines of a text: split on newline, a trailing empty line is ignored
Lines(data) ==
    LET ls == Split(data, NL)
    IN IF ls[Len(ls)] = <<>> THEN SubSeq(ls, 1, Len(ls) - 1) ELSE ls

\* decode: every non-empty line must hold exactly one colon; strict mode
\* fails on any other line, non-strict mode skips it
RECURSIVE LinesToSeq(_, _)
LinesToSeq(ls, strict) ==
    IF Len(ls) = 0 THEN Ok(<<>>)
    ELSE LET line == ls[1]
             rest == LinesToSeq(Tail(ls), strict)
         IN IF Len(line) = 0 THEN rest
            ELSE IF Count(line, COLON) # 1
                 THEN (IF strict THEN Raise("MalformedLineError") ELSE rest)
            ELSE IF ~rest.ok THEN rest
            ELSE Ok(<< <<SubSeq(line, 1, Find(line, COLON) - 1),
                         SubSeq(line, Find(line, COLON) + 1, Len(line))>> >> \o rest.val)

kvToSeq(data, strict) == LinesToSeq(Lines(data), strict)

(***************************************************************************)
(* Keyed-hash primitive (cryptutil.hmacSha1), idealised as collision free: *)
(* the MAC is a byte encoding of (key, message), injective over the        *)
(* characters that the signed pairs use.                                   *)
(***************************************************************************)
Ord(c) ==
    IF IsB64(c) THEN
        LET i == B64Val(c)
        IN IF i < 26 THEN 65 + i
           ELSE IF i < 52 THEN 97 + (i - 26)
           ELSE IF i < 62 THEN 48 + (i - 52)
           ELSE IF i = 62 THEN 43 ELSE 47
    ELSE IF c = NL THEN 10
    ELSE IF c = COLON THEN 58
    ELSE IF c = "." THEN 46
    ELSE IF c = "-" THEN 45
    ELSE IF c = PAD THEN 61
    ELSE 63

hmacSha1(key, text) == <<Len(key)>> \o key \o [i \in 1..Len(text) |-> Ord(text[i])]

(***************************************************************************)
(* String constants of association.py                                      *)
(***************************************************************************)
K_version == <<"v", "e", "r", "s", "i", "o", "n">>
K_handle == <<"h", "a", "n", "d", "l", "e">>
K_secret == <<"s", "e", "c", "r", "e", "t">>
K_issued == <<"i", "s", "s", "u", "e", "d">>
K_lifetime == <<"l", "i", "f", "e", "t", "i", "m", "e">>
K_assoc_type == <<"a", "s", "s", "o", "c", "_", "t", "y", "p", "e">>

\* Association.assoc_keys: the ordering and name of keys as stored by serialize
assoc_keys == <<K_version, K_handle, K_secret, K_issued, K_lifetime, K_assoc_type>>

HMAC_SHA1 == <<"H", "M", "A", "C", "-", "S", "H", "A", "1">>
HMAC_SHA256 == <<"H", "M", "A", "C", "-", "S", "H", "A", "2", "5", "6">>
V2 == <<"2">>
OPENID_PREFIX == <<"o", "p", "e", "n", "i", "d", ".">>

ErrAssocType == "ValueError: HMAC-SHA1 is the only currently supported association type"
ErrKeys == "ValueError: Unexpected key values"
ErrVersion == "ValueError: Unknown version"
ErrKey == "KeyError"
ErrName == "NameError: name 'oidUtil' is not defined"

\* int(time.time()) when time.time() stands at tick t
int_time(t) == t \div TicksPerSecond

(***************************************************************************)
(* class Association                                                       *)
(***************************************************************************)
\* variant of __init__ that stores any assoc_type unchecked
init_unchecked(handle, secret, issued, lifetime, assoc_type) ==
    Ok([handle |-> handle, secret |-> secret, issued |-> issued,
        lifetime |-> lifetime, assoc_type |-> assoc_type])

\* Association.__init__: the instance is the record of its five attributes
__init__(handle, secret, issued, lifetime, assoc_type) ==
    IF assoc_type # HMAC_SHA1
    THEN Raise(ErrAssocType)
    ELSE Ok([handle |-> handle, secret |-> secret, issued |-> issued,
             lifetime |-> lifetime, assoc_type |-> assoc_type])

\* variant of fromExpiresIn that stores the absolute expiry time as lifetime
fromExpiresIn_absolute(t, expires_in, handle, secret, assoc_type) ==
    LET issued == int_time(t)
        lifetime == issued + expires_in
    IN __init__(handle, secret, issued, lifetime, assoc_type)

\* Association.fromExpiresIn, called when time.time() stands at tick t
fromExpiresIn(t, expires_in, handle, secret, assoc_type) ==
    LET issued == int_time(t)
        lifetime == expires_in
    IN __init__(handle, secret, issued, lifetime, assoc_type)

\* variant of getExpiresIn without the floor at zero
getExpiresIn_unfloored(self, t) == self.issued + self.lifetime - int_time(t)

\* Association.getExpiresIn, called when time.time() stands at tick t
getExpiresIn(self, t) == Max(0, self.issued + self.lifetime - int_time(t))

\* Association.__eq__: comparison of the instance dictionaries
__eq__(self, other) == self = other

\* variant of serialize that emits lifetime before issued
serialize_reordered(self) ==
    seqToKV(<< <<K_version, V2>>,
               <<K_handle, self.handle>>,
               <<K_secret, toBase64(self.secret)>>,
               <<K_lifetime, IntToStr(self.lifetime)>>,
               <<K_issued, IntToStr(self.issued)>>,
               <<K_assoc_type, self.assoc_type>> >>, TRUE)

\* Association.serialize
serialize(self) ==
    LET data == << <<K_version, V2>>,
                   <<K_handle, self.handle>>,
                   <<K_secret, toBase64(self.secret)>>,
                   <<K_issued, IntToStr(self.issued)>>,
                   <<K_lifetime, IntToStr(self.lifetime)>>,
                   <<K_assoc_type, self.assoc_type>> >>
        value(field_name) == data[CHOOSE i \in 1..Len(data) : data[i][1] = field_name][2]
        pairs == [i \in 1..Len(assoc_keys) |-> <<assoc_keys[i], value(assoc_keys[i])>>]
    IN IF Len(data) # Len(assoc_keys) THEN Raise("AssertionError")
       ELSE seqToKV(pairs, TRUE)

\* the tail of deserialize once the keys are accepted, with the version
\* check placed before (as in the code) or after the parsing of the values
ParseValues(values, versionFirst) ==
    LET issued == StrToInt(values[4])
        lifetime == StrToInt(values[5])
        secret == fromBase64(values[3])
    IN IF versionFirst /\ values[1] # V2 THEN Raise(ErrVersion)
       ELSE IF ~issued.ok THEN issued
       ELSE IF ~lifetime.ok THEN lifetime
       ELSE IF ~secret.ok THEN secret
       ELSE IF values[1] # V2 THEN Raise(ErrVersion)
       ELSE __init__(values[2], secret.val, issued.val, lifetime.val, values[6])

\* variant of deserialize that accepts the six keys in any order
deserialize_anyorder(assoc_s) ==
    LET pairs == kvToSeq(assoc_s, TRUE)
    IN IF ~pairs.ok THEN pairs
       ELSE LET keys == [i \in 1..Len(pairs.val) |-> pairs.val[i][1]]
                values == [i \in 1..Len(pairs.val) |-> pairs.val[i][2]]
            IN IF Len(keys) # Len(assoc_keys)
                  \/ {keys[i] : i \in 1..Len(keys)} # {assoc_keys[i] : i \in 1..Len(assoc_keys)}
               THEN Raise(ErrKeys)
               ELSE ParseValues(values, TRUE)

\* variant of deserialize that checks the version after parsing the values
deserialize_lateversion(assoc_s) ==
    LET pairs == kvToSeq(assoc_s, TRUE)
    IN IF ~pairs.ok THEN pairs
       ELSE LET keys == [i \in 1..Len(pairs.val) |-> pairs.val[i][1]]
                values == [i \in 1..Len(pairs.val) |-> pairs.val[i][2]]
            IN IF keys # assoc_keys THEN Raise(ErrKeys)
               ELSE ParseValues(values, FALSE)

\* Association.deserialize
deserialize(assoc_s) ==
    LET pairs == kvToSeq(assoc_s, TRUE)
    IN IF ~pairs.ok THEN pairs
       ELSE LET keys == [i \in 1..Len(pairs.val) |-> pairs.val[i][1]]
                values == [i \in 1..Len(pairs.val) |-> pairs.val[i][2]]
            IN IF keys # assoc_keys THEN Raise(ErrKeys)
               ELSE IF values[1] # V2 THEN Raise(ErrVersion)
               ELSE LET issued == StrToInt(values[4])
                        lifetime == StrToInt(values[5])
                        secret == fromBase64(values[3])
                    IN IF ~issued.ok THEN issued
                       ELSE IF ~lifetime.ok THEN lifetime
                       ELSE IF ~secret.ok THEN secret
                       ELSE __init__(values[2], secret.val, issued.val, lifetime.val, values[6])

\* variant of sign whose key also covers the handle
sign_handlekeyed(self, pairs) ==
    LET kv == seqToKV(pairs, FALSE)
    IN IF ~kv.ok THEN kv
       ELSE [Ok(hmacSha1(self.secret \o [i \in 1..Len(self.handle) |-> Ord(self.handle[i])], kv.val))
                EXCEPT !.hmac = TRUE]

\* Association.sign
sign(self, pairs) ==
    LET kv == seqToKV(pairs, FALSE)
    IN IF ~kv.ok THEN kv
       ELSE [Ok(hmacSha1(self.secret, kv.val)) EXCEPT !.hmac = TRUE]

\* the names bound at module level: the three imports and the class
ModuleGlobals == {"time", "oidutil", "cryptutil", "Association"}

\* variant of signDict that leaves out the fields missing from data
signDict_skipmissing(self, fields, data, prefix) ==
    LET present == SelectSeq(fields, LAMBDA f : (prefix \o f) \in DOMAIN data)
        pairs == [i \in 1..Len(present) |-> <<present[i], data[prefix \o present[i]]>>]
    IN IF "oidUtil" \notin ModuleGlobals THEN Raise(ErrName)
       ELSE LET mac == sign(self, pairs)
            IN IF ~mac.ok THEN mac
               ELSE [Ok(toBase64(mac.val)) EXCEPT !.hmac = TRUE]

\* Association.signDict: data is a dictionary (a function on its key set).
\* The loop raises KeyError at the first field whose prefixed name is no key
\* of data.  In the return statement the name oidUtil is looked up before
\* self.sign(pairs) is evaluated.
signDict(self, fields, data, prefix) ==
    IF \E i \in 1..Len(fields) : (prefix \o fields[i]) \notin DOMAIN data
    THEN Raise(ErrKey)
    ELSE LET pairs == [i \in 1..Len(fields) |-> <<fields[i], data[prefix \o fields[i]]>>]
         IN IF "oidUtil" \notin ModuleGlobals THEN Raise(ErrName)
            ELSE LET mac == sign(self, pairs)
                 IN IF ~mac.ok THEN mac
                    ELSE [Ok(toBase64(mac.val)) EXCEPT !.hmac = TRUE]

(***************************************************************************)
(* Inputs of the calls                                                     *)
(***************************************************************************)
Handles == { <<"h", "1">>, <<"a", ":", "b">>, <<"x", "\n", "y">> }
Secrets == { <<255, 1>>, <<77, 97, 110>> }
IssuedVals == { 1 }
Lifetimes == { -12, 2 }
AssocTypes == { HMAC_SHA1, HMAC_SHA256 }

F_a == <<"a">>
F_b == <<"b">>
V_x == <<"x">>
V_y == <<"y">>

SignInputs ==
    { <<>>,
      << <<F_a, V_x>> >>,
      << <<F_a, V_x>>, <<F_b, V_y>> >>,
      << <<F_b, V_y>>, <<F_a, V_x>> >>,
      << <<F_a, <<"x", "\n", "y">> >> >>,
      << << <<"a", ":", "b">>, V_x>> >> }

\* a dictionary with the given list of (key, value) items
Dict(items) ==
    [k \in {items[i][1] : i \in 1..Len(items)} |->
        items[CHOOSE i \in 1..Len(items) : items[i][1] = k][2]]

D_ab == Dict(<< <<OPENID_PREFIX \o F_a, V_x>>, <<OPENID_PREFIX \o F_b, V_y>> >>)
D_a == Dict(<< <<OPENID_PREFIX \o F_a, V_x>> >>)
D_bare == Dict(<< <<F_a, V_x>>, <<F_b, <<"x", "\n", "y">> >> >>)

SignDictArgs(fields, data, prefix) == [fields |-> fields, data |-> data, prefix |-> prefix]

SignDictInputs ==
    { SignDictArgs(<<>>, D_ab, OPENID_PREFIX),
      SignDictArgs(<<F_a>>, D_ab, OPENID_PREFIX),
      SignDictArgs(<<F_a, F_b>>, D_ab, OPENID_PREFIX),
      SignDictArgs(<<F_b, F_a>>, D_ab, OPENID_PREFIX),
      SignDictArgs(<<F_a, F_b>>, D_a, OPENID_PREFIX),
      SignDictArgs(<<F_b, F_a>>, D_a, OPENID_PREFIX),
      SignDictArgs(<<F_a>>, D_bare, OPENID_PREFIX),
      SignDictArgs(<<F_a>>, D_bare, <<>>),
      SignDictArgs(<<F_a, F_b>>, D_bare, <<>>) }

\* texts handed to deserialize: key:value lines over several key sequences
\* and values, and texts that are not in KV form
Line(k, v) == k \o <<COLON>> \o v \o <<NL>>

RECURSIVE Concat(_)
Concat(ss) == IF Len(ss) = 0 THEN <<>> ELSE ss[1] \o Concat(Tail(ss))

K_extra == <<"e", "x", "t", "r", "a">>
K_Handle == <<"H", "a", "n", "d", "l", "e">>

KeyLists ==
    { assoc_keys,
      <<K_version, K_secret, K_handle, K_issued, K_lifetime, K_assoc_type>>,
      <<K_version, K_handle, K_secret, K_issued, K_assoc_type>>,
      <<K_version, K_handle, K_secret, K_issued, K_lifetime, K_assoc_type, K_extra>>,
      <<K_version, K_handle, K_handle, K_secret, K_issued, K_lifetime, K_assoc_type>>,
      <<K_version, K_Handle, K_secret, K_issued, K_lifetime, K_assoc_type>>,
      <<>> }

KVText(keys, ver, sec, iss, typ) ==
    LET v(k) == IF k = K_version THEN ver
                ELSE IF k = K_secret THEN sec
                ELSE IF k = K_issued THEN iss
                ELSE IF k = K_lifetime THEN <<"3", "6", "0", "0">>
                ELSE IF k = K_assoc_type THEN typ
                ELSE <<"h", "1">>
    IN Concat([i \in 1..Len(keys) |-> Line(keys[i], v(keys[i]))])

B64_good == <<"A", "A", "=", "=">>
B64_bad == <<"A">>

KVTexts ==
    { KVText(assoc_keys, ver, sec, iss, typ) :
        ver \in {V2, <<"3">>}, sec \in {B64_good, B64_bad},
        iss \in {<<"7">>, <<"x">>}, typ \in AssocTypes }
    \cup { KVText(keys, ver, B64_good, <<"7">>, HMAC_SHA1) :
             keys \in KeyLists, ver \in {V2, <<"3">>} }

RawTexts ==
    { K_version,
      <<"a", ":", "b", ":", "c", "\n">>,
      <<"\n">>,
      K_version \o <<COLON>> \o V2 }

DeserializeInputs == KVTexts \cup RawTexts

(***************************************************************************)
(* State machine: a caller that keeps the latest instance and the outcome  *)
(* of its latest call                                                      *)
(***************************************************************************)
\* the outcome of deserialize on every input text
DeserializeTable == [text \in DeserializeInputs |-> deserialize(text)]

Call(op, self, args, out, from, prev) ==
    [op |-> op, self |-> self, args |-> args, ok |-> out.ok, err |-> out.err,
     val |-> out.val, hmac |-> out.hmac, at |-> int_time(clock),
     from |-> from, prev |-> prev]

Made(by, e) == [by |-> by, at |-> int_time(clock), e |-> e]

Init ==
    /\ clock = 0
    /\ assoc = <<>>
    /\ made = [by |-> "none", at |-> 0, e |-> 0]
    /\ last = [op |-> "none", self |-> <<>>, args |-> <<>>, ok |-> TRUE, err |-> "",
               val |-> <<>>, hmac |-> FALSE, at |-> 0, from |-> <<>>, prev |-> <<>>]

\* the wall clock advances
Tick ==
    /\ clock < MaxTime * TicksPerSecond
    /\ clock' = clock + 1
    /\ UNCHANGED <<assoc, made, last>>

\* Association(handle, secret, issued, lifetime, assoc_type)
New(handle, secret, issued, lifetime, assoc_type) ==
    LET out == __init__(handle, secret, issued, lifetime, assoc_type)
    IN /\ assoc' = IF out.ok THEN <<out.val>> ELSE <<>>
       /\ made' = Made(IF out.ok THEN "new" ELSE "none", 0)
       /\ last' = Call("new", <<>>,
                       [handle |-> handle, secret |-> secret, issued |-> issued,
                        lifetime |-> lifetime, assoc_type |-> assoc_type],
                       out, <<>>, <<>>)
       /\ UNCHANGED clock

\* Association.fromExpiresIn(expires_in, handle, secret, assoc_type)
FromExpiresIn(expires_in, handle, secret, assoc_type) ==
    LET out == fromExpiresIn(clock, expires_in, handle, secret, assoc_type)
    IN /\ assoc' = IF out.ok THEN <<out.val>> ELSE <<>>
       /\ made' = Made(IF out.ok THEN "fromExpiresIn" ELSE "none", IF out.ok THEN expires_in ELSE 0)
       /\ last' = Call("fromExpiresIn", <<>>,
                       [expires_in |-> expires_in, handle |-> handle, secret |-> secret,
                        assoc_type |-> assoc_type],
                       out, <<>>, <<>>)
       /\ UNCHANGED clock

\* a.expiresIn
GetExpiresIn ==
    /\ assoc # <<>>
    /\ last' = Call("getExpiresIn", assoc, <<>>, Ok(getExpiresIn(assoc[1], clock)), <<>>,
                    IF last.op = "getExpiresIn" THEN <<last.at, last.val>> ELSE <<>>)
    /\ UNCHANGED <<clock, assoc, made>>

\* a.serialize()
Serialize ==
    /\ assoc # <<>>
    /\ last' = Call("serialize", assoc, <<>>, serialize(assoc[1]), <<>>, <<>>)
    /\ UNCHANGED <<clock, assoc, made>>

\* Association.deserialize(text) on a text from outside
Deserialize(text) ==
    LET out == DeserializeTable[text]
    IN /\ assoc' = IF out.ok THEN <<out.val>> ELSE <<>>
       /\ made' = Made(IF out.ok THEN "deserialize" ELSE "none", 0)
       /\ last' = Call("deserialize", <<>>, text, out, <<>>, <<>>)
       /\ UNCHANGED clock

\* Association.deserialize(s) on the text s that a.serialize() just returned
Load ==
    /\ last.op = "serialize"
    /\ last.ok
    /\ LET out == deserialize(last.val)
       IN /\ assoc' = IF out.ok THEN <<out.val>> ELSE <<>>
          /\ made' = Made(IF out.ok THEN "deserialize" ELSE "none", 0)
          /\ last' = Call("deserialize", <<>>, last.val, out, last.self, <<>>)
    /\ UNCHANGED clock

\* a.sign(pairs)
Sign(pairs) ==
    /\ assoc # <<>>
    /\ last' = Call("sign", assoc, pairs, sign(assoc[1], pairs), <<>>, <<>>)
    /\ UNCHANGED <<clock, assoc, made>>

\* a.signDict(fields, data, prefix)
SignDict(fields, data, prefix) ==
    /\ assoc # <<>>
    /\ last' = Call("signDict", assoc, SignDictArgs(fields, data, prefix),
                    signDict(assoc[1], fields, data, prefix), <<>>, <<>>)
    /\ UNCHANGED <<clock, assoc, made>>

Next ==
    \/ Tick
    \/ \E h \in Handles, s \in Secrets, i \in IssuedVals, l \in Lifetimes, t \in AssocTypes :
          New(h, s, i, l, t)
    \/ \E e \in Lifetimes, h \in Handles, s \in Secrets, t \in AssocTypes :
          FromExpiresIn(e, h, s, t)
    \/ GetExpiresIn
    \/ Serialize
    \/ \E text \in DeserializeInputs : Deserialize(text)
    \/ Load
    \/ \E pairs \in SignInputs : Sign(pairs)
    \/ \E x \in SignDictInputs : SignDict(x.fields, x.data, x.prefix)

Spec == Init /\ [][Next]_vars

(***************************************************************************)
(* Properties                                                              *)
(***************************************************************************)
\* a text in KV form: newline-terminated lines, each with exactly one colon
WellFormedKV(text) ==
    /\ Len(text) = 0 \/ text[Len(text)] = NL
    /\ \A i \in 1..Len(Lines(text)) : Count(Lines(text)[i], COLON) = 1

TextKeys(text) ==
    [i \in 1..Len(Lines(text)) |-> SubSeq(Lines(text)[i], 1, Find(Lines(text)[i], COLON) - 1)]

TextValues(text) ==
    [i \in 1..Len(Lines(text)) |->
        SubSeq(Lines(text)[i], Find(Lines(text)[i], COLON) + 1, Len(Lines(text)[i]))]

Outcome == [ok |-> last.ok, err |-> last.err, val |-> last.val, hmac |-> last.hmac]

\* C1: deserialize(serialize(a)) succeeds and equals a, for every association
\* a whose handle is free of newlines.
RoundTripRestoresAssociation ==
    (last.op = "deserialize" /\ last.from # <<>> /\ ~Contains(last.from[1].handle, NL))
        => (last.ok /\ __eq__(last.val, last.from[1]))

SignDictAllPresent ==
    \A i \in 1..Len(last.args.fields) :
        (last.args.prefix \o last.args.fields[i]) \in DOMAIN last.args.data

SignDictPairs ==
    [i \in 1..Len(last.args.fields) |->
        <<last.args.fields[i], last.args.data[last.args.prefix \o last.args.fields[i]]>>]

\* C2: when every prefixed field name is a key of the data map, signDict
\* returns normally, and returns the binary-to-text encoding of sign(pairs)
\* for the pairs taken in the order of the field names.
SignDictReturnsEncodedMac ==
    (last.op = "signDict" /\ SignDictAllPresent)
        => (last.ok /\ last.val = toBase64(sign(last.self[1], SignDictPairs).val))

\* C3: signDict fails with the missing-field error whenever some requested
\* name has no prefixed entry in the data map, wherever the name sits in the
\* list, and then no MAC is computed or returned.
SignDictMissingFieldFails ==
    (last.op = "signDict" /\ ~SignDictAllPresent)
        => (~last.ok /\ last.err = ErrKey /\ ~last.hmac /\ last.val = <<>>)

SignDictMissingFieldSeen ==
    /\ last.op = "signDict"
    /\ Len(last.args.fields) = 2
    /\ (last.args.prefix \o last.args.fields[1]) \in DOMAIN last.args.data
    /\ (last.args.prefix \o last.args.fields[2]) \notin DOMAIN last.args.data
    /\ last.err = ErrKey

\* the text passes every step of deserialize up to the constructor call and
\* carries an assoc_type other than HMAC-SHA1
DecodesToOtherType(text) ==
    /\ WellFormedKV(text)
    /\ TextKeys(text) = assoc_keys
    /\ TextValues(text)[1] = V2
    /\ StrToInt(TextValues(text)[4]).ok
    /\ StrToInt(TextValues(text)[5]).ok
    /\ fromBase64(TextValues(text)[3]).ok
    /\ TextValues(text)[6] # HMAC_SHA1

\* C4: every existing instance has assoc_type HMAC-SHA1; the constructor,
\* fromExpiresIn and deserialize fail with the unsupported-type error and
\* yield no instance when given (or decoding) any other assoc_type.
OnlyHmacSha1Instances ==
    /\ assoc # <<>> => assoc[1].assoc_type = HMAC_SHA1
    /\ (last.op \in {"new", "fromExpiresIn"} /\ last.args.assoc_type # HMAC_SHA1)
          => (~last.ok /\ last.err = ErrAssocType /\ assoc = <<>>)
    /\ (last.op = "deserialize" /\ DecodesToOtherType(last.args))
          => (~last.ok /\ last.err = ErrAssocType /\ assoc = <<>>)

DeserializeRejectedOtherType ==
    /\ last.op = "deserialize"
    /\ DecodesToOtherType(last.args)
    /\ last.err = ErrAssocType
    /\ assoc = <<>>

\* C5: expiresIn read at time t is max(0, issued + lifetime - t); successive
\* readings are non-increasing, never negative, and 0 from issued + lifetime on.
ExpiresInFloorsAndDecreases ==
    last.op = "getExpiresIn" =>
        LET a == last.self[1]
            remaining == a.issued + a.lifetime - last.at
        IN /\ last.val = IF remaining > 0 THEN remaining ELSE 0
           /\ last.val >= 0
           /\ last.at >= a.issued + a.lifetime => last.val = 0
           /\ last.prev # <<>> => (last.prev[1] <= last.at /\ last.val <= last.prev[2])

ExpiresInReachedZero ==
    /\ last.op = "getExpiresIn"
    /\ last.prev # <<>>
    /\ last.prev[2] > 0
    /\ last.val = 0
    /\ last.at > last.self[1].issued + last.self[1].lifetime

\* C6: deserialize fails with the unexpected-keys error and yields no
\* association for every well-formed text whose key sequence is not exactly
\* version, handle, secret, issued, lifetime, assoc_type in that order.
DeserializeRejectsOtherKeys ==
    (last.op = "deserialize" /\ WellFormedKV(last.args) /\ TextKeys(last.args) # assoc_keys)
        => (~last.ok /\ last.err = ErrKeys /\ assoc = <<>>)

DeserializeRejectedSwappedKeys ==
    /\ last.op = "deserialize"
    /\ WellFormedKV(last.args)
    /\ TextKeys(last.args) = <<K_version, K_secret, K_handle, K_issued, K_lifetime, K_assoc_type>>
    /\ TextValues(last.args)[1] = V2
    /\ last.err = ErrKeys

\* C7: with the six expected keys in order and a version other than "2",
\* deserialize fails with the unknown-version error whatever the other
\* values are (unparseable issued, undecodable secret, unsupported type).
DeserializeChecksVersionFirst ==
    (last.op = "deserialize" /\ WellFormedKV(last.args) /\ TextKeys(last.args) = assoc_keys
       /\ TextValues(last.args)[1] # V2)
        => (~last.ok /\ last.err = ErrVersion /\ assoc = <<>>)

DeserializeRejectedVersionBeforeValues ==
    /\ last.op = "deserialize"
    /\ WellFormedKV(last.args)
    /\ TextKeys(last.args) = assoc_keys
    /\ TextValues(last.args)[1] # V2
    /\ ~StrToInt(TextValues(last.args)[4]).ok
    /\ ~fromBase64(TextValues(last.args)[3]).ok
    /\ TextValues(last.args)[6] # HMAC_SHA1
    /\ last.err = ErrVersion

\* the six lines of the serialized form of a
SerializedForm(a) ==
    Line(K_version, V2) \o Line(K_handle, a.handle) \o Line(K_secret, toBase64(a.secret))
        \o Line(K_issued, IntToStr(a.issued)) \o Line(K_lifetime, IntToStr(a.lifetime))
        \o Line(K_assoc_type, HMAC_SHA1)

SerializeMakesSixLines ==
    /\ last.ok
    /\ last.val = SerializedForm(last.self[1])
    /\ Count(last.val, NL) = 6
    /\ Len(Lines(last.val)) = 6

\* C8 as stated: serialize produces the six key:value lines, in the fixed
\* order, for every association.
SerializeSixLinesAlways ==
    last.op = "serialize" => SerializeMakesSixLines

\* C8 amended: serialize produces the six key:value lines, in the fixed
\* order, for every association whose handle contains no newline.
SerializeSixLinesNoNewline ==
    (last.op = "serialize" /\ ~Contains(last.self[1].handle, NL)) => SerializeMakesSixLines

SerializedColonHandle ==
    /\ last.op = "serialize"
    /\ Contains(last.self[1].handle, COLON)
    /\ last.self[1].lifetime < 0
    /\ last.ok

\* C9: the outcome of sign(pairs) is the same on every association with the
\* same secret, whatever its handle, issued and lifetime and whatever the
\* clock; sign still succeeds once the association has expired.
SignDependsOnSecretAndPairsOnly ==
    last.op = "sign" =>
        \A h \in Handles, i \in IssuedVals \cup (0..MaxTime), l \in Lifetimes :
            sign([last.self[1] EXCEPT !.handle = h, !.issued = i, !.lifetime = l], last.args)
                = Outcome

SignedAfterExpiry ==
    /\ last.op = "sign"
    /\ Len(last.args) = 2
    /\ last.ok
    /\ last.hmac
    /\ last.self[1].lifetime > 0
    /\ last.at >= last.self[1].issued + last.self[1].lifetime

\* C10: fromExpiresIn(e, handle, secret, "HMAC-SHA1") at time t yields
\* issued = t, lifetime = e, handle and secret as given; for e >= 0 its
\* expiresIn read d seconds later is max(0, e - d).
FromExpiresInStampsNow ==
    /\ (last.op = "fromExpiresIn" /\ last.args.assoc_type = HMAC_SHA1)
          => /\ last.ok
             /\ last.val = [handle |-> last.args.handle, secret |-> last.args.secret,
                            issued |-> last.at, lifetime |-> last.args.expires_in,
                            assoc_type |-> HMAC_SHA1]
             /\ assoc = <<last.val>>
    /\ (last.op = "getExpiresIn" /\ made.by = "fromExpiresIn" /\ made.e >= 0)
          => LET d == last.at - made.at
             IN last.val = IF made.e - d > 0 THEN made.e - d ELSE 0

FreshAssociationCountedDown ==
    /\ last.op = "getExpiresIn"
    /\ made.by = "fromExpiresIn"
    /\ made.at > 0
    /\ last.at > made.at
    /\ last.val > 0
    /\ last.val = made.e - (last.at - made.at)

====
